---- MODULE Spec2Model ----
(***************************************************************************)
(* FastReader (RSVP reader): the PdfLoader (incremental page loader), the  *)
(* playback scheduler of app.js, the tokenizers and the pacing function,   *)
(* as a state machine.  One JavaScript task (a timer callback, a fetch     *)
(* completion, a UI/API call) is one action; the promise reactions it      *)
(* queues are kept in the microtask queue `micro` and run before any       *)
(* other task.                                                             *)
(***************************************************************************)
EXTENDS Integers, Sequences, FiniteSets, TLC

\* ------------------------------------------------------------------ bounds
MaxPages == 2       \* largest page count of a document
MaxLoaders == 2     \* PdfLoader objects constructed in one run
MaxWaiters == 2     \* length of one loader's contentWaiters queue
MaxTimers == 3      \* scheduler timeouts pending at once
MaxMicro == 4       \* promise reactions queued at once
MaxCalls == 5       \* calls by the user of app.js in one run
MaxApiCalls == 3    \* calls of the loader's interface in one run (SpecLoader)
MaxPollers == 2     \* interval pollers of one loader at once
MaxTextLen == 4     \* length of a text given to tokenize (SpecTokenize)
MaxEstimatePages == 7   \* page count of the long document (SpecEstimate)
MaxEstimateWords == 60  \* tokens up to which the estimate is tabulated

\* ------------------------------------------------------------ characters
\* A text is a sequence of one-character strings.
Letters == {"a", "b", "c", "d", "h", "p", "s", "t", "w"}
Digits == {"7"}
IsLN(c) == c \in Letters \cup Digits                  \* [\p{L}\p{N}]
IsWS(c) == c \in {" ", "\n", "\r", "\t"}              \* \s

Min(a, b) == IF a <= b THEN a ELSE b
Max(a, b) == IF a >= b THEN a ELSE b

\* s.replace(/\r\n/g, '\n')
RECURSIVE ReplaceCRLF(_)
ReplaceCRLF(s) ==
    IF s = << >> THEN << >>
    ELSE IF Len(s) >= 2 /\ s[1] = "\r" /\ s[2] = "\n"
         THEN <<"\n">> \o ReplaceCRLF(SubSeq(s, 3, Len(s)))
         ELSE <<s[1]>> \o ReplaceCRLF(Tail(s))

\* s.replace(/\r/g, '\n')
ReplaceCR(s) == [i \in 1..Len(s) |-> IF s[i] = "\r" THEN "\n" ELSE s[i]]

\* s.replace(/\n{2,}/g, '\n\n'): a run of two or more line feeds becomes two
RECURSIVE CollapseNL(_)
CollapseNL(s) ==
    IF s = << >> THEN << >>
    ELSE IF Len(s) >= 3 /\ s[1] = "\n" /\ s[2] = "\n" /\ s[3] = "\n"
         THEN CollapseNL(Tail(s))
         ELSE <<s[1]>> \o CollapseNL(Tail(s))

Normalize(text) == CollapseNL(ReplaceCR(ReplaceCRLF(text)))

\* normalized.split(/\n\n+/): the pieces between the separators, empty ones kept
RECURSIVE SplitParagraphs(_, _)
SplitParagraphs(s, cur) ==
    IF s = << >> THEN <<cur>>
    ELSE IF Len(s) >= 2 /\ s[1] = "\n" /\ s[2] = "\n"
         THEN LET k == CHOOSE n \in 2..Len(s) :
                         /\ \A i \in 1..n : s[i] = "\n"
                         /\ (n = Len(s) \/ s[n + 1] # "\n")
              IN <<cur>> \o SplitParagraphs(SubSeq(s, k + 1, Len(s)), << >>)
         ELSE SplitParagraphs(Tail(s), Append(cur, s[1]))

\* String.prototype.trim
RECURSIVE TrimLeft(_)
TrimLeft(s) == IF s # << >> /\ IsWS(s[1]) THEN TrimLeft(Tail(s)) ELSE s
RECURSIVE TrimRight(_)
TrimRight(s) ==
    IF s # << >> /\ IsWS(s[Len(s)]) THEN TrimRight(SubSeq(s, 1, Len(s) - 1)) ELSE s
Trim(s) == TrimRight(TrimLeft(s))

\* s has the literal q at position i
HasAt(s, i, q) == i + Len(q) - 1 <= Len(s) /\ SubSeq(s, i, i + Len(q) - 1) = q

\* end of the longest run of characters satisfying the class, starting at i
\* (i - 1 when s[i] is not in the class)
RECURSIVE RunEndLN(_, _)
RunEndLN(s, i) == IF i <= Len(s) /\ IsLN(s[i]) THEN RunEndLN(s, i + 1) ELSE i - 1
RECURSIVE RunEndNonWS(_, _)
RunEndNonWS(s, i) == IF i <= Len(s) /\ ~IsWS(s[i]) THEN RunEndNonWS(s, i + 1) ELSE i - 1
RECURSIVE RunEndPunct(_, _)
RunEndPunct(s, i) ==
    IF i <= Len(s) /\ ~IsLN(s[i]) /\ ~IsWS(s[i]) THEN RunEndPunct(s, i + 1) ELSE i - 1

\* (?:sep[\p{L}\p{N}]+)* after position e (the last matched position)
RECURSIVE GroupsEnd(_, _, _)
GroupsEnd(s, e, sep) ==
    IF e + 2 <= Len(s) /\ s[e + 1] = sep /\ IsLN(s[e + 2])
    THEN GroupsEnd(s, RunEndLN(s, e + 2), sep)
    ELSE e

http == <<"h", "t", "t", "p", ":", "/", "/">>
https == <<"h", "t", "t", "p", "s", ":", "/", "/">>
www == <<"w", "w", "w", ".">>

\* prefix + [^\s]+ at i: the end of the match, or 0
UrlEnd(s, i, prefix) ==
    IF HasAt(s, i, prefix) /\ RunEndNonWS(s, i + Len(prefix)) >= i + Len(prefix)
    THEN RunEndNonWS(s, i + Len(prefix)) ELSE 0

\* The end of the match of `re` at position i, or 0 when nothing matches there.
\* Alternatives in the order of the regular expression.
MatchEnd(s, i) ==
    IF UrlEnd(s, i, https) > 0 THEN UrlEnd(s, i, https)
    ELSE IF UrlEnd(s, i, http) > 0 THEN UrlEnd(s, i, http)
    ELSE IF UrlEnd(s, i, www) > 0 THEN UrlEnd(s, i, www)
    ELSE IF IsLN(s[i]) THEN GroupsEnd(s, GroupsEnd(s, RunEndLN(s, i), "'"), ".")
    ELSE IF ~IsWS(s[i]) THEN RunEndPunct(s, i)
    ELSE 0

\* para.match(re) || []
RECURSIVE MatchAll(_, _)
MatchAll(s, i) ==
    IF i > Len(s) THEN << >>
    ELSE IF MatchEnd(s, i) = 0 THEN MatchAll(s, i + 1)
    ELSE <<SubSeq(s, i, MatchEnd(s, i))>> \o MatchAll(s, MatchEnd(s, i) + 1)

\* /^[\p{L}\p{N}]/u.test(t) || /^https?:\/\//i.test(t) || /^www\./i.test(t)
isWordLike(t) ==
    IsLN(t[1]) \/ HasAt(t, 1, http) \/ HasAt(t, 1, https) \/ HasAt(t, 1, www)

\* the inner loop over the matches of one paragraph
RECURSIVE AttachTokens(_, _)
AttachTokens(output, tokens) ==
    IF tokens = << >> THEN output
    ELSE LET t == Head(tokens) IN
         IF isWordLike(t)
         THEN AttachTokens(Append(output, [word |-> t, isParagraphEnd |-> FALSE]),
                           Tail(tokens))
         ELSE IF Len(output) > 0
              THEN AttachTokens(
                     [output EXCEPT ![Len(output)].word = @ \o t], Tail(tokens))
              ELSE AttachTokens(output, Tail(tokens))

\* the loop over the paragraphs, p counting from 1 here (from 0 in the source)
RECURSIVE ParagraphLoop(_, _, _)
ParagraphLoop(paragraphs, p, output) ==
    IF p > Len(paragraphs) THEN output
    ELSE LET para == Trim(paragraphs[p]) IN
         IF para = << >> THEN ParagraphLoop(paragraphs, p + 1, output)
         ELSE LET out1 == AttachTokens(output, MatchAll(para, 1))
                  out2 == IF Len(out1) > 0 /\ p < Len(paragraphs)
                          THEN [out1 EXCEPT ![Len(out1)].isParagraphEnd = TRUE]
                          ELSE out1
              IN ParagraphLoop(paragraphs, p + 1, out2)

\* PdfLoader.tokenizePage
tokenizePage(text) == ParagraphLoop(SplitParagraphs(Normalize(text), << >>), 1, << >>)

\* Variant of tokenize: the output is returned as it is, even when empty
tokenize_NoFallback(text) ==
    ParagraphLoop(SplitParagraphs(Normalize(text), << >>), 1, << >>)

\* tokenize of app.js: the same scan, with the single-space fallback
tokenize(text) ==
    LET output == ParagraphLoop(SplitParagraphs(Normalize(text), << >>), 1, << >>)
    IN IF Len(output) > 0 THEN output
       ELSE <<[word |-> <<" ">>, isParagraphEnd |-> FALSE]>>

\* ---------------------------------------------------------------- documents
\* The page text provider (pdf.js) is external: a file is a fixed text per page.
\* File "A" has tokens on every page; in file "B" page 1 holds punctuation only
\* and page 2 holds more tokens than the lookahead of needsMoreContent.
Files == {"A", "B"}
LongPageText ==
    <<"a", " ", "b", " ", "a", " ", "b", " ", "a", " ", "b", " ",
      "a", " ", "b", " ", "a", " ", "b", " ", "a", " ", "b", ".">>
\* File "C" is a document of MaxEstimatePages pages with 29 tokens in all.
FourWords == <<"a", " ", "b", " ", "c", " ", "d">>
PageText(file, p) ==
    IF file = "C" THEN (IF p = MaxEstimatePages THEN FourWords \o <<" ", "7">>
                        ELSE FourWords)
    ELSE IF file = "B" /\ p = 1 THEN <<".", " ", ".">>
    ELSE IF file = "B" /\ p = 2 THEN LongPageText
    ELSE IF p % 3 = 1 THEN <<"a", " ", "b", ".">>
    ELSE IF p % 3 = 2 THEN <<"c", "\n", "\n", "d">>
    ELSE <<"7">>

\* ------------------------------------------------------------------- state
VARIABLES
    loaders,       \* the PdfLoader objects constructed so far, oldest first
    micro,         \* the microtask queue: promise reactions not yet run
    pdfLoader,     \* app.js pdfLoader: 0 is null, else an index of loaders
    isPdfMode,     \* app.js isPdfMode
    words,         \* app.js words: the active token sequence
    totalWords,    \* app.js totalWords
    index,         \* app.js index
    isPlaying,     \* app.js isPlaying
    timerId,       \* app.js timerId: 0 is null, 1 is the handle of a timeout
    timers,        \* the pending timeouts of scheduleNext: held, the one whose
                   \* handle timerId holds (0 or 1), and ms, its delay; lost,
                   \* those whose handle has been overwritten
    wpm,           \* app.js wpm
    profileKey,    \* app.js profileKey
    loopEnabled,   \* app.js loopEnabled
    calls,         \* the calls made so far from outside
    over           \* TRUE when a step would exceed a bound of the model

vars == <<loaders, micro, pdfLoader, isPdfMode, words, totalWords, index,
          isPlaying, timerId, timers, wpm, profileKey, loopEnabled, calls,
          over>>

\* The whole state as one record, so that a handler is a function on it.
World ==
    [loaders |-> loaders, micro |-> micro, pdfLoader |-> pdfLoader,
     isPdfMode |-> isPdfMode, words |-> words, totalWords |-> totalWords,
     index |-> index, isPlaying |-> isPlaying, timerId |-> timerId,
     timers |-> timers, wpm |-> wpm, profileKey |-> profileKey,
     loopEnabled |-> loopEnabled, calls |-> calls, over |-> over,
     thrown |-> FALSE]

\* The step to the state W, refused when W is beyond a bound.
Becomes(W) ==
    /\ ~W.over
    /\ loaders' = W.loaders
    /\ micro' = W.micro
    /\ pdfLoader' = W.pdfLoader
    /\ isPdfMode' = W.isPdfMode
    /\ words' = W.words
    /\ totalWords' = W.totalWords
    /\ index' = W.index
    /\ isPlaying' = W.isPlaying
    /\ timerId' = W.timerId
    /\ timers' = W.timers
    /\ wpm' = W.wpm
    /\ profileKey' = W.profileKey
    /\ loopEnabled' = W.loopEnabled
    /\ calls' = W.calls
    /\ over' = W.over

EmptyMap == [p \in {} |-> 0]

\* new PdfLoader(file, options): the constructor's fields, and the execution
\* state of the loader's asynchronous methods:
\*   inflight   the getPage/getTextContent requests outstanding, [page, who]
\*   pollers    the setInterval pollers of "Currently loading", [page, who]
\*   bgTimers   pending setTimeout(() => this._loadNextPageInBackground())
\*   ini        the loop of loadInitialPages: active, i, pagesToLoad
\*   signalled  calls of onAllPagesLoaded so far
\*   ready      init() has returned
\*   arrived    the ordinals of the pages loaded, in the order they arrived
\*   failed     the ordinals of which a request has failed
\* who is the caller awaiting loadPage: "bg", "init", "all" or "ext".
PdfLoader(file) ==
    [file |-> file, totalPages |-> 0,
     loadedPages |-> EmptyMap, loadingPages |-> {}, pageWordRanges |-> EmptyMap,
     nextPageToLoad |-> 1, isBackgroundLoading |-> FALSE, allPagesLoaded |-> FALSE,
     allWords |-> << >>, estimatedTotalWords |-> 0, contentWaiters |-> << >>,
     inflight |-> << >>, pollers |-> << >>, bgTimers |-> 0,
     ini |-> [active |-> FALSE, i |-> 0, pagesToLoad |-> 0],
     all |-> [active |-> FALSE, i |-> 0],
     signalled |-> 0, ready |-> FALSE, arrived |-> << >>, failed |-> {}]

SetLoader(W, l, L) == [W EXCEPT !.loaders[l] = L]

Task(k, who, l, ok) == [k |-> k, who |-> who, l |-> l, ok |-> ok]

\* a promise reaction is queued
Enqueue(W, t) ==
    [W EXCEPT !.micro = Append(@, t), !.over = @ \/ Len(W.micro) >= MaxMicro]

RemoveAt(s, k) == [i \in 1..(Len(s) - 1) |-> IF i < k THEN s[i] ELSE s[i + 1]]

\* Variant of SortedSeq: the comparator reversed, (a, b) => b - a
RECURSIVE SortedSeq_Descending(_)
SortedSeq_Descending(S) ==
    IF S = {} THEN << >>
    ELSE LET m == CHOOSE a \in S : \A b \in S : a >= b
         IN <<m>> \o SortedSeq_Descending(S \ {m})

\* Array.from(keys).sort((a, b) => a - b)
RECURSIVE SortedSeq(_)
SortedSeq(S) ==
    IF S = {} THEN << >>
    ELSE LET m == CHOOSE a \in S : \A b \in S : a <= b
         IN <<m>> \o SortedSeq(S \ {m})

\* Math.ceil(n / d) for n >= 0, d > 0
CeilDiv(n, d) == (n + d - 1) \div d

\* Math.ceil((len / n) * total) as rebuildAggregatedContent computes it, in
\* IEEE doubles: len / n is rounded to a double before it is multiplied, and
\* for the arguments of EstimateAbove the product is a double just above the
\* exact integer ((29 / 7) * 7 is 29.000000000000004), so that Math.ceil
\* returns one more.  For every other len <= MaxEstimateWords and
\* n <= total <= MaxEstimatePages the result is the exact quotient rounded up.
EstimateAbove == {<<29, 7, 7>>, <<58, 7, 7>>}
estimateTotal(len, n, total) ==
    CeilDiv(len * total, n) + (IF <<len, n, total>> \in EstimateAbove THEN 1 ELSE 0)

\* Variant of RebuildLoop: the loop leaves after the first page
RebuildLoop_FirstPageOnly(loaded, sortedPages, allW, ranges) ==
    IF sortedPages = << >> THEN [allWords |-> allW, pageWordRanges |-> ranges]
    ELSE LET pageNum == Head(sortedPages)
             allW2 == allW \o loaded[pageNum].words
         IN [allWords |-> allW2,
             pageWordRanges |->
                [q \in {pageNum} |-> [start |-> Len(allW), end |-> Len(allW2) - 1]]]

\* Variant of RebuildLoop: end is this.allWords.length, not length - 1
RECURSIVE RebuildLoop_EndOffByOne(_, _, _, _)
RebuildLoop_EndOffByOne(loaded, sortedPages, allW, ranges) ==
    IF sortedPages = << >> THEN [allWords |-> allW, pageWordRanges |-> ranges]
    ELSE LET pageNum == Head(sortedPages)
             startIdx == Len(allW)
             allW2 == allW \o loaded[pageNum].words
         IN RebuildLoop_EndOffByOne(loaded, Tail(sortedPages), allW2,
                        [q \in DOMAIN ranges \cup {pageNum} |->
                           IF q = pageNum
                           THEN [start |-> startIdx, end |-> Len(allW2)]
                           ELSE ranges[q]])

\* the loop of rebuildAggregatedContent over sortedPages
RECURSIVE RebuildLoop(_, _, _, _)
RebuildLoop(loaded, sortedPages, allW, ranges) ==
    IF sortedPages = << >> THEN [allWords |-> allW, pageWordRanges |-> ranges]
    ELSE LET pageNum == Head(sortedPages)
             startIdx == Len(allW)
             allW2 == allW \o loaded[pageNum].words
         IN RebuildLoop(loaded, Tail(sortedPages), allW2,
                        [q \in DOMAIN ranges \cup {pageNum} |->
                           IF q = pageNum
                           THEN [start |-> startIdx, end |-> Len(allW2) - 1]
                           ELSE ranges[q]])

\* options.onWordsUpdated of handlePdfUpload
onWordsUpdated(W, newWords, estimatedTotal) ==
    IF W.isPdfMode
    THEN [W EXCEPT !.words = newWords, !.totalWords = estimatedTotal]
    ELSE W

\* PdfLoader.rebuildAggregatedContent.  Indices are those of the source: the
\* first token has index 0, a range is [start, end] with end = start - 1 for a
\* page without tokens.
rebuildAggregatedContent(W, l) ==
    LET L == W.loaders[l]
        sortedPages == SortedSeq(DOMAIN L.loadedPages)
        r == RebuildLoop(L.loadedPages, sortedPages, << >>, EmptyMap)
        est == IF Len(sortedPages) > 0
               THEN estimateTotal(Len(r.allWords), Len(sortedPages), L.totalPages)
               ELSE L.estimatedTotalWords
        L2 == [L EXCEPT !.allWords = r.allWords,
                        !.pageWordRanges = r.pageWordRanges,
                        !.estimatedTotalWords = est]
    IN onWordsUpdated(SetLoader(W, l, L2), r.allWords, est)

\* Variant of resolveWaiters: pop() in place of shift(), newest first
RECURSIVE resolveWaiters_NewestFirst(_, _)
resolveWaiters_NewestFirst(W, l) ==
    LET L == W.loaders[l]
        n == Len(L.contentWaiters)
    IN IF n > 0
       THEN LET waiter == L.contentWaiters[n]
                W2 == SetLoader(W, l, [L EXCEPT !.contentWaiters = SubSeq(@, 1, n - 1)])
            IN resolveWaiters_NewestFirst(Enqueue(W2, Task("waiter", waiter, l, TRUE)), l)
       ELSE W

\* PdfLoader.resolveWaiters: every queued resolve is called, oldest first; the
\* then-callbacks run later, as microtasks, in that order.
RECURSIVE resolveWaiters(_, _)
resolveWaiters(W, l) ==
    LET L == W.loaders[l] IN
    IF Len(L.contentWaiters) > 0
    THEN LET waiter == Head(L.contentWaiters)
             W2 == SetLoader(W, l, [L EXCEPT !.contentWaiters = Tail(@)])
         IN resolveWaiters(Enqueue(W2, Task("waiter", waiter, l, TRUE)), l)
    ELSE W

\* PdfLoader.waitForContent, called by `who` ("sched": scheduleNext; "ext":
\* another caller of the loader's interface)
waitForContent(W, l, who) ==
    LET L == W.loaders[l] IN
    IF L.loadingPages # {} \/ L.isBackgroundLoading
    THEN [SetLoader(W, l, [L EXCEPT !.contentWaiters = Append(@, who)])
             EXCEPT !.over = @ \/ Len(L.contentWaiters) >= MaxWaiters]
    ELSE Enqueue(W, Task("waiter", who, l, TRUE))

\* The caller `who` resumes after `await loadPage(...)`; an outside caller
\* does nothing with the result.
Resume(W, l, who, ok) ==
    IF who = "ext" THEN W ELSE Enqueue(W, Task("cont", who, l, ok))

\* Variant of loadPage: without the "Currently loading" branch
loadPage_NoJoin(W, l, pageNum, who) ==
    LET L == W.loaders[l] IN
    IF pageNum < 1 \/ pageNum > L.totalPages THEN Resume(W, l, who, TRUE)
    ELSE IF pageNum \in DOMAIN L.loadedPages THEN Resume(W, l, who, TRUE)
    ELSE [SetLoader(W, l, [L EXCEPT
             !.loadingPages = @ \cup {pageNum},
             !.inflight = Append(@, [page |-> pageNum, who |-> who])])
             EXCEPT !.over = @ \/ Len(L.inflight) >= MaxPages + MaxPollers]

\* PdfLoader.loadPage up to its first await: the call by `who`
loadPage(W, l, pageNum, who) ==
    LET L == W.loaders[l] IN
    IF pageNum < 1 \/ pageNum > L.totalPages THEN Resume(W, l, who, TRUE)
    ELSE IF pageNum \in DOMAIN L.loadedPages THEN Resume(W, l, who, TRUE)
    ELSE IF pageNum \in L.loadingPages
    THEN [SetLoader(W, l, [L EXCEPT !.pollers =
                             Append(@, [page |-> pageNum, who |-> who])])
             EXCEPT !.over = @ \/ Len(L.pollers) >= MaxPollers]
    ELSE SetLoader(W, l, [L EXCEPT
             !.loadingPages = @ \cup {pageNum},
             !.inflight = Append(@, [page |-> pageNum, who |-> who])])

\* PdfLoader.loadPage after the page text has arrived (lines 188-210)
loadPageSuccess(W, l, k) ==
    LET L == W.loaders[l]
        pageNum == L.inflight[k].page
        who == L.inflight[k].who
        pageWords == tokenizePage(PageText(L.file, pageNum))
        L2 == [L EXCEPT
                 !.loadedPages = [q \in DOMAIN @ \cup {pageNum} |->
                                    IF q = pageNum THEN [words |-> pageWords]
                                    ELSE @[q]],
                 !.loadingPages = @ \ {pageNum},
                 !.inflight = RemoveAt(@, k),
                 !.arrived = Append(@, pageNum)]
        W2 == rebuildAggregatedContent(SetLoader(W, l, L2), l)
        W3 == resolveWaiters(W2, l)
    IN Resume(W3, l, who, TRUE)

\* Variant of loadPageFailure: the catch block also calls resolveWaiters
loadPageFailure_Resolves(W, l, k) ==
    LET L == W.loaders[l]
        pageNum == L.inflight[k].page
        who == L.inflight[k].who
        L2 == [L EXCEPT !.loadingPages = @ \ {pageNum},
                        !.inflight = RemoveAt(@, k),
                        !.failed = @ \cup {pageNum}]
    IN Resume(resolveWaiters(SetLoader(W, l, L2), l), l, who, FALSE)

\* PdfLoader.loadPage, the catch block (lines 211-215)
loadPageFailure(W, l, k) ==
    LET L == W.loaders[l]
        pageNum == L.inflight[k].page
        who == L.inflight[k].who
        L2 == [L EXCEPT !.loadingPages = @ \ {pageNum},
                        !.inflight = RemoveAt(@, k),
                        !.failed = @ \cup {pageNum}]
    IN Resume(SetLoader(W, l, L2), l, who, FALSE)

\* PdfLoader._loadNextPageInBackground up to its await
loadNextPageInBackground(W, l) ==
    LET L == W.loaders[l] IN
    IF ~L.isBackgroundLoading THEN W
    ELSE IF L.nextPageToLoad > L.totalPages
    THEN SetLoader(W, l, [L EXCEPT !.isBackgroundLoading = FALSE,
                                   !.allPagesLoaded = TRUE,
                                   !.signalled = @ + 1])
    ELSE loadPage(W, l, L.nextPageToLoad, "bg")

\* _loadNextPageInBackground after its await: both branches count the page
\* and set the timeout (50 ms after a load, 100 ms after a failure)
backgroundResume(W, l, ok) ==
    SetLoader(W, l, [W.loaders[l] EXCEPT !.nextPageToLoad = @ + 1,
                                         !.bgTimers = @ + 1])

\* Variant of startBackgroundLoading: allPagesLoaded is not tested
startBackgroundLoading_IgnoresCompletion(W, l) ==
    LET L == W.loaders[l] IN
    IF L.isBackgroundLoading THEN W
    ELSE loadNextPageInBackground(
           SetLoader(W, l, [L EXCEPT !.isBackgroundLoading = TRUE]), l)

\* Variant of startBackgroundLoading: isBackgroundLoading is not tested
startBackgroundLoading_IgnoresRunning(W, l) ==
    LET L == W.loaders[l] IN
    IF L.allPagesLoaded THEN W
    ELSE loadNextPageInBackground(
           SetLoader(W, l, [L EXCEPT !.isBackgroundLoading = TRUE]), l)

\* PdfLoader.startBackgroundLoading
startBackgroundLoading(W, l) ==
    LET L == W.loaders[l] IN
    IF L.isBackgroundLoading \/ L.allPagesLoaded THEN W
    ELSE loadNextPageInBackground(
           SetLoader(W, l, [L EXCEPT !.isBackgroundLoading = TRUE]), l)

\* Variant of initialLoop: nextPageToLoad is left as it was
initialLoop_KeepsNext(W, l) ==
    LET L == W.loaders[l] IN
    IF L.ini.i <= L.ini.pagesToLoad THEN loadPage(W, l, L.ini.i, "init")
    ELSE SetLoader(W, l, [L EXCEPT !.ini.active = FALSE])

\* the for loop of loadInitialPages at its test i <= pagesToLoad
initialLoop(W, l) ==
    LET L == W.loaders[l] IN
    IF L.ini.i <= L.ini.pagesToLoad THEN loadPage(W, l, L.ini.i, "init")
    ELSE SetLoader(W, l, [L EXCEPT !.nextPageToLoad = L.ini.pagesToLoad + 1,
                                   !.ini.active = FALSE])

\* PdfLoader.loadInitialPages(count) up to its first await
loadInitialPages(W, l, count) ==
    LET L == W.loaders[l]
        pagesToLoad == Min(count, L.totalPages)
    IN initialLoop(SetLoader(W, l, [L EXCEPT !.ini =
              [active |-> TRUE, i |-> 1, pagesToLoad |-> pagesToLoad]]), l)

\* loadInitialPages after `await this.loadPage(i)`: the next turn of the loop,
\* or the rejection leaving the function
initialResume(W, l, ok) ==
    LET L == W.loaders[l] IN
    IF ok THEN initialLoop(SetLoader(W, l, [L EXCEPT !.ini.i = @ + 1]), l)
    ELSE SetLoader(W, l, [L EXCEPT !.ini.active = FALSE])

\* Variant of needsMoreContent: the number of loaded pages is not tested
needsMoreContent_IgnoresPages(L, currentWordIndex) ==
    currentWordIndex >= Len(L.allWords) - 10

\* Variant of needsMoreContent: nearEnd tests > instead of >=
needsMoreContent_Strict(L, currentWordIndex) ==
    Cardinality(DOMAIN L.loadedPages) < L.totalPages
    /\ currentWordIndex > Len(L.allWords) - 10

\* PdfLoader.needsMoreContent
Lookahead == 10
needsMoreContent(L, currentWordIndex) ==
    LET hasMorePages == Cardinality(DOMAIN L.loadedPages) < L.totalPages
        nearEnd == currentWordIndex >= Len(L.allWords) - Lookahead
    IN hasMorePages /\ nearEnd

\* ------------------------------------------------------------ pacing engine
\* PAUSE_PROFILES, the multipliers in tenths (4.0 is 40)
PAUSE_PROFILES ==
    [relaxed |-> [sentence |-> 40, comma |-> 20, paragraph |-> 40, longWord |-> 15,
                  number |-> 20, minSentenceMs |-> 400, minCommaMs |-> 200],
     normal  |-> [sentence |-> 30, comma |-> 15, paragraph |-> 30, longWord |-> 13,
                  number |-> 15, minSentenceMs |-> 300, minCommaMs |-> 150],
     speed   |-> [sentence |-> 15, comma |-> 12, paragraph |-> 15, longWord |-> 11,
                  number |-> 12, minSentenceMs |-> 150, minCommaMs |-> 80]]

getActiveProfile(key) ==
    IF key \in DOMAIN PAUSE_PROFILES THEN PAUSE_PROFILES[key] ELSE PAUSE_PROFILES.normal

\* The rate is a JavaScript number: an integer here, or NaN, for which every
\* comparison is false and every arithmetic result, Math.max and Math.min
\* included, is NaN again.
NaN == -2

MsPerMinute == 60000

\* Variant of baseIntervalMs: Math.ceil in place of Math.floor
baseIntervalMs_RoundsUp(w) ==
    IF w = NaN THEN NaN
    ELSE IF w <= 0 THEN -1
    ELSE Max(1, (MsPerMinute + w - 1) \div w)

\* baseIntervalMs: -1 stands for null
baseIntervalMs(w) ==
    IF w = NaN THEN NaN
    ELSE IF w <= 0 THEN -1
    ELSE Max(1, MsPerMinute \div w)

LongWordLen == 8
EndsWith(word, S) == Len(word) > 0 /\ word[Len(word)] \in S
CleanLen(word) == Cardinality({i \in 1..Len(word) : IsLN(word[i])})

\* Variant of dwellMsForToken: without the minimum times for readability
dwellMsForToken_NoMinimum(token, w, key) ==
    LET base == baseIntervalMs(w)
        profile == getActiveProfile(key)
        word == token.word
        sentenceEnd == EndsWith(word, {".", "!", "?"})
        commaEnd == ~sentenceEnd /\ EndsWith(word, {",", ";", ":"})
        m1 == IF sentenceEnd THEN Max(10, profile.sentence)
              ELSE IF commaEnd THEN Max(10, profile.comma) ELSE 10
        m2 == IF CleanLen(word) > LongWordLen THEN Max(m1, profile.longWord) ELSE m1
        m3 == IF \E i \in 1..Len(word) : word[i] \in Digits
              THEN Max(m2, profile.number) ELSE m2
        m4 == IF token.isParagraphEnd THEN Max(m3, profile.paragraph) ELSE m3
    IN IF base = -1 THEN -1
       ELSE IF base = NaN THEN NaN
       ELSE (base * m4) \div 10

\* dwellMsForToken: -1 stands for null.  Math.floor(base * multiplier) is
\* computed in tenths; for the multipliers of PAUSE_PROFILES the double
\* product and the exact one have the same floor.
dwellMsForToken(token, w, key) ==
    LET base == baseIntervalMs(w)
        profile == getActiveProfile(key)
        word == token.word
        sentenceEnd == EndsWith(word, {".", "!", "?"})
        commaEnd == ~sentenceEnd /\ EndsWith(word, {",", ";", ":"})
        m1 == IF sentenceEnd THEN Max(10, profile.sentence)
              ELSE IF commaEnd THEN Max(10, profile.comma) ELSE 10
        m2 == IF CleanLen(word) > LongWordLen THEN Max(m1, profile.longWord) ELSE m1
        m3 == IF \E i \in 1..Len(word) : word[i] \in Digits
              THEN Max(m2, profile.number) ELSE m2
        m4 == IF token.isParagraphEnd THEN Max(m3, profile.paragraph) ELSE m3
        dwell == (base * m4) \div 10
    IN IF base = -1 THEN -1
       ELSE IF base = NaN THEN NaN
       ELSE IF sentenceEnd THEN Max(dwell, profile.minSentenceMs)
       ELSE IF commaEnd THEN Max(dwell, profile.minCommaMs)
       ELSE dwell

\* ---------------------------------------------------------------- scheduler
\* the number of pending timeouts of scheduleNext
Armed(t) == t.held + t.lost

\* stopLoop: clearTimeout cancels the timeout of the handle, if still pending
stopLoop(W) ==
    IF W.timerId # 0
    THEN [W EXCEPT !.timers.held = 0, !.timers.ms = 0, !.timerId = 0]
    ELSE W

\* timerId = setTimeout(..., ms): the handle of a pending timeout is overwritten
setTimer(W, ms) ==
    [W EXCEPT !.timers = [held |-> 1, lost |-> @.lost + @.held, ms |-> ms],
              !.timerId = 1,
              !.over = @ \/ Armed(W.timers) >= MaxTimers]

\* advanceTo (draw and the progress display are not modelled)
advanceTo(W, newIndex) ==
    [W EXCEPT !.index = Max(0, Min(Len(W.words) - 1, newIndex))]

\* showLoadingOverlay
showLoadingOverlay(W, show) == IF show /\ W.isPlaying THEN stopLoop(W) ELSE W

\* setPlaying(false), the only call of setPlaying inside scheduleNext
setPaused(W) == stopLoop([W EXCEPT !.isPlaying = FALSE])

\* scheduleNext.  words[index] of the source is W.words[W.index + 1]; when no
\* such token exists dwellMsForToken(undefined) throws a TypeError (thrown).
scheduleNext(W) ==
    IF ~W.isPlaying THEN W
    ELSE IF /\ W.isPdfMode /\ W.pdfLoader # 0
            /\ needsMoreContent(W.loaders[W.pdfLoader], W.index)
            /\ W.index >= Len(W.words) - 1
    THEN waitForContent(showLoadingOverlay(W, TRUE), W.pdfLoader, "sched")
    ELSE IF ~W.loopEnabled /\ W.index >= Len(W.words) - 1 THEN setPaused(W)
    ELSE IF baseIntervalMs(W.wpm) = -1 THEN W
    ELSE IF W.index + 1 > Len(W.words) THEN [W EXCEPT !.thrown = TRUE]
    ELSE IF dwellMsForToken(W.words[W.index + 1], W.wpm, W.profileKey) = -1 THEN W
    ELSE setTimer(W, dwellMsForToken(W.words[W.index + 1], W.wpm, W.profileKey))

\* Variant of timerCallback: without the test of isPlaying
timerCallback_NoGuard(W) ==
    IF W.index < Len(W.words) - 1 THEN scheduleNext(advanceTo(W, W.index + 1))
    ELSE IF W.loopEnabled THEN scheduleNext(advanceTo(W, 0))
    ELSE setPaused(W)

\* the callback of the timeout set by scheduleNext
timerCallback(W) ==
    IF ~W.isPlaying THEN W
    ELSE IF W.index < Len(W.words) - 1 THEN scheduleNext(advanceTo(W, W.index + 1))
    ELSE IF W.loopEnabled THEN scheduleNext(advanceTo(W, 0))
    ELSE setPaused(W)

\* Variant of restartIfPlaying: the pending timeout is not cleared first
restartIfPlaying_NoStop(W) == IF ~W.isPlaying THEN W ELSE scheduleNext(W)

\* restartIfPlaying
restartIfPlaying(W) == IF ~W.isPlaying THEN W ELSE scheduleNext(stopLoop(W))

\* Variant of setPlaying: resuming moves to the following token first
setPlaying_SkipsOnResume(W, v) ==
    LET W2 == stopLoop([W EXCEPT !.isPlaying = v])
    IN IF v /\ W2.wpm # NaN /\ W2.wpm > 0
       THEN scheduleNext(advanceTo(W2, W2.index + 1))
       ELSE W2

\* setPlaying
setPlaying(W, v) ==
    LET W2 == stopLoop([W EXCEPT !.isPlaying = v])
    IN IF v /\ W2.wpm # NaN /\ W2.wpm > 0 THEN scheduleNext(W2) ELSE W2

\* resetToStart
resetToStart(W) == restartIfPlaying(advanceTo(W, 0))

\* applyWpm
MinWpm == 50
MaxWpm == 1500
applyWpm(W, v) ==
    restartIfPlaying([W EXCEPT !.wpm = IF v = NaN THEN NaN
                                       ELSE Max(MinWpm, Min(MaxWpm, v))])

\* setProfile
setProfile(W, key) ==
    IF key \in DOMAIN PAUSE_PROFILES
    THEN restartIfPlaying([W EXCEPT !.profileKey = key])
    ELSE W

\* toggleLoop
toggleLoop(W) == [W EXCEPT !.loopEnabled = ~@]

\* setText
setText(W, text) ==
    LET ws == tokenize(text)
        W2 == [W EXCEPT !.isPdfMode = FALSE, !.pdfLoader = 0,
                        !.words = ws, !.totalWords = Len(ws)]
    IN setPlaying(advanceTo(W2, 0), TRUE)

\* applyPdfText with a loader present (without one it is applyText); a
\* TypeError thrown under setPlaying(true) leaves the function before
\* startBackgroundLoading
applyPdfText(W) ==
    LET L == W.loaders[W.pdfLoader]
        W2 == [W EXCEPT !.isPdfMode = TRUE, !.words = L.allWords,
                        !.totalWords = L.estimatedTotalWords]
        W3 == setPlaying(advanceTo(W2, 0), TRUE)
    IN IF W3.thrown THEN W3 ELSE startBackgroundLoading(W3, W3.pdfLoader)

\* the for loop of loadAllPdfPages at its test i <= pdfLoader.totalPages.  The
\* variable pdfLoader is read at every turn; the counter i is kept with the
\* loader whose page the function awaits (field all).
loadAllLoop(W, i) ==
    IF W.pdfLoader = 0 THEN [W EXCEPT !.thrown = TRUE]
    ELSE LET l == W.pdfLoader
             L == W.loaders[l]
         IN IF i <= L.totalPages
            THEN loadPage([SetLoader(W, l, [L EXCEPT !.all = [active |-> TRUE, i |-> i]])
                             EXCEPT !.over = @ \/ L.all.active],
                          l, i, "all")
            ELSE SetLoader(W, l, [L EXCEPT !.allPagesLoaded = TRUE])

\* loadAllPdfPages up to its first await
loadAllPdfPages(W) == loadAllLoop(W, 1)

\* loadAllPdfPages after `await pdfLoader.loadPage(i)`: the next turn of the
\* loop, or the rejection leaving the function
allResume(W, l, ok) ==
    LET L == W.loaders[l]
        W2 == SetLoader(W, l, [L EXCEPT !.all.active = FALSE])
    IN IF ok THEN loadAllLoop(W2, L.all.i + 1) ELSE W2

\* applyText: the text area's value is applied when it is not blank
applyText(W, value) ==
    LET newText == Trim(value)
    IN IF newText # << >> THEN setText(W, newText) ELSE W

\* Variant of applyClick: only pdfLoader is tested
applyClick_LoaderOnly(W, value) ==
    IF W.pdfLoader # 0 THEN applyPdfText(W) ELSE applyText(W, value)

\* the click handler of applyModalBtn
applyClick(W, value) ==
    IF W.isPdfMode /\ W.pdfLoader # 0 THEN applyPdfText(W) ELSE applyText(W, value)

\* the then-callback of pdfLoader.waitForContent() in scheduleNext; with
\* pdfLoader null, pdfLoader.getAllWords() throws
contentCallback(W) ==
    IF W.pdfLoader = 0 THEN [W EXCEPT !.thrown = TRUE]
    ELSE LET L == W.loaders[W.pdfLoader]
             W2 == [W EXCEPT !.words = L.allWords,
                             !.totalWords = L.estimatedTotalWords]
         IN IF W2.isPlaying THEN scheduleNext(W2) ELSE W2

\* ------------------------------------------------------------------ inputs
DefaultText == <<"a", " ", "b", ".">>
OneWordText == <<"7">>
Texts == { DefaultText, <<"c", ",", " ", "d", "\n", "\n", "7">> }
WpmInputs == {20, 300, 2000}
\* stopEditingWpm: Number(elements.wpmInput.value), NaN for text that is not a
\* number
WpmEdited == WpmInputs \cup {NaN}
ProfileInputs == {"normal", "speed", "none"}
InitialPages == 3          \* loadQuickStart: loadInitialPages(3)
WordsPerPage == 250        \* init: estimatedTotalWords = totalPages * 250
DefaultWpm == 300

Loaders == 1..Len(loaders)
Idle == micro = << >>      \* a task starts only when no microtask is left

\* a call by the user of app.js (a click, a key, window.FastReader)
Call(W) == Becomes([W EXCEPT !.calls = @ + 1, !.over = @ \/ calls >= MaxCalls])

\* a call of the loader's interface from outside app.js
ApiCall(W) == Becomes([W EXCEPT !.calls = @ + 1, !.over = @ \/ calls >= MaxApiCalls])

\* ------------------------------------------------------------ loader events
\* a page request completes: the page text arrives
FetchSuccess(l, k) ==
    /\ Idle
    /\ k \in 1..Len(loaders[l].inflight)
    /\ Becomes(loadPageSuccess(World, l, k))

\* a page request completes with an error
FetchFail(l, k) ==
    /\ Idle
    /\ k \in 1..Len(loaders[l].inflight)
    /\ Becomes(loadPageFailure(World, l, k))

\* the 50 ms interval of "Currently loading" finds the page loaded; a tick
\* that does not find it changes nothing
PollTick(l, k) ==
    /\ Idle
    /\ k \in 1..Len(loaders[l].pollers)
    /\ loaders[l].pollers[k].page \in DOMAIN loaders[l].loadedPages
    /\ LET L == loaders[l]
           W == SetLoader(World, l, [L EXCEPT !.pollers = RemoveAt(@, k)])
       IN Becomes(Resume(W, l, L.pollers[k].who, TRUE))

\* the timeout set by _loadNextPageInBackground fires
BgTimer(l) ==
    /\ Idle
    /\ loaders[l].bgTimers > 0
    /\ LET W == SetLoader(World, l, [loaders[l] EXCEPT !.bgTimers = @ - 1])
       IN Becomes(loadNextPageInBackground(W, l))

\* the oldest promise reaction runs
RunMicrotask ==
    /\ micro # << >>
    /\ LET t == Head(micro)
           W == [World EXCEPT !.micro = Tail(@)]
       IN Becomes(
            IF t.k = "waiter" THEN (IF t.who = "sched" THEN contentCallback(W) ELSE W)
            ELSE IF t.who = "bg" THEN backgroundResume(W, t.l, t.ok)
            ELSE IF t.who = "all" THEN allResume(W, t.l, t.ok)
            ELSE initialResume(W, t.l, t.ok))

\* ------------------------------------------------- calls of the loader's API
StartBackgroundLoading(l) ==
    /\ Idle
    /\ ApiCall(startBackgroundLoading(World, l))

LoadInitialPages(l, count) ==
    /\ Idle
    /\ loaders[l].ready
    /\ ~loaders[l].ini.active
    /\ ApiCall(loadInitialPages(World, l, count))

LoadPage(l, pageNum) ==
    /\ Idle
    /\ loaders[l].ready
    /\ ApiCall(loadPage(World, l, pageNum, "ext"))

WaitForContent(l) ==
    /\ Idle
    /\ ApiCall(waitForContent(World, l, "ext"))

\* ------------------------------------------------------- scheduler and app
\* a timeout set by scheduleNext fires: the one timerId holds, or a lost one
TimerFire(which) ==
    /\ Idle
    /\ timers[which] > 0
    /\ Becomes(timerCallback(
          [World EXCEPT !.timers[which] = @ - 1,
                        !.timers.ms = IF which = "held" THEN 0 ELSE @]))

\* play/pause: setPlaying(v)
SetPlaying(v) == Idle /\ Call(setPlaying(World, v))

\* window.FastReader.advanceTo; the step buttons, while paused
AdvanceTo(newIndex) == Idle /\ Call(advanceTo(World, newIndex))

ResetToStart == Idle /\ Call(resetToStart(World))

ApplyWpm(v) == Idle /\ Call(applyWpm(World, v))

SetProfile(key) == Idle /\ Call(setProfile(World, key))

ToggleLoop == Idle /\ Call(toggleLoop(World))

SetText(text) == Idle /\ Call(setText(World, text))

\* window.FastReader: set words(w) and set totalWords(t)
SetWords(w) == Idle /\ Call([World EXCEPT !.words = w])

SetTotalWords(t) == Idle /\ Call([World EXCEPT !.totalWords = t])

\* handlePdfUpload up to `await pdfLoader.init()`
HandlePdfUpload(file) ==
    /\ Idle
    /\ Len(loaders) < MaxLoaders
    /\ Call([World EXCEPT !.loaders = Append(@, PdfLoader(file)),
                          !.pdfLoader = Len(loaders) + 1])

\* PdfLoader.init returns: the document has n pages
InitDone(l, n) ==
    /\ Idle
    /\ ~loaders[l].ready
    /\ Becomes(SetLoader(World, l, [loaders[l] EXCEPT
                 !.totalPages = n, !.estimatedTotalWords = n * WordsPerPage,
                 !.ready = TRUE]))

\* loadQuickStart, offered once init has returned
LoadQuickStart ==
    /\ Idle
    /\ pdfLoader # 0
    /\ loaders[pdfLoader].ready
    /\ ~loaders[pdfLoader].ini.active
    /\ Call(loadInitialPages(World, pdfLoader, InitialPages))

\* loadAllPdfPages, offered once init has returned
LoadAllPdfPages ==
    /\ Idle
    /\ pdfLoader # 0
    /\ loaders[pdfLoader].ready
    /\ ~loaders[pdfLoader].all.active
    /\ Call(loadAllPdfPages(World))

\* a click on Apply in the text dialogue, the text area holding `value`
ApplyClick(value) == Idle /\ Call(applyClick(World, value))

\* applyPdfText, the operation that attaches the loader's sequence to the
\* scheduler, called in its own right as the other operations are.  (The
\* click handler of applyModalBtn, lines 1343-1349, calls it only when
\* isPdfMode is already true, and nothing else sets isPdfMode.)
ApplyPdfText ==
    /\ Idle
    /\ pdfLoader # 0
    /\ Call(applyPdfText(World))

\* ---------------------------------------------------------- specifications
\* app.js after init() and startApp(): the stored text is tokenized, the rate
\* has passed applyWpm, playback is paused
Init ==
    /\ loaders = << >>
    /\ micro = << >>
    /\ pdfLoader = 0
    /\ isPdfMode = FALSE
    /\ words = tokenize(DefaultText)
    /\ totalWords = Len(words)
    /\ index = 0
    /\ isPlaying = FALSE
    /\ timerId = 0
    /\ timers = [held |-> 0, lost |-> 0, ms |-> 0]
    /\ wpm = DefaultWpm
    /\ profileKey = "normal"
    /\ loopEnabled \in BOOLEAN
    /\ calls = 0
    /\ over = FALSE

\* positions in a loader's inflight and pollers sequences
Slots == 1..(MaxPages + MaxPollers)

Next ==
    \/ \E l \in Loaders, k \in Slots : FetchSuccess(l, k)
    \/ \E l \in Loaders, k \in Slots : FetchFail(l, k)
    \/ \E l \in Loaders, k \in Slots : PollTick(l, k)
    \/ \E l \in Loaders : BgTimer(l)
    \/ RunMicrotask
    \/ \E which \in {"held", "lost"} : TimerFire(which)
    \/ \E v \in BOOLEAN : SetPlaying(v)
    \/ \E i \in -1..3 : AdvanceTo(i)
    \/ ResetToStart
    \/ ApplyWpm(DefaultWpm)
    \/ SetProfile("normal")
    \/ ToggleLoop
    \/ SetText(DefaultText)
    \/ SetWords(tokenize(OneWordText))
    \/ SetTotalWords(0)
    \/ HandlePdfUpload("A")
    \/ \E l \in Loaders : InitDone(l, MaxPages)
    \/ LoadQuickStart
    \/ ApplyPdfText

Spec == Init /\ [][Next]_vars

\* The loader alone: one PdfLoader whose init() has returned, driven through
\* its interface; the scheduler is not attached (isPdfMode is false).
InitLoader ==
    /\ \E file \in Files, n \in 1..MaxPages :
          loaders = <<[PdfLoader(file) EXCEPT
                         !.totalPages = n,
                         !.estimatedTotalWords = n * WordsPerPage,
                         !.ready = TRUE]>>
    /\ micro = << >>
    /\ pdfLoader = 1
    /\ isPdfMode = FALSE
    /\ words = tokenize(DefaultText)
    /\ totalWords = Len(words)
    /\ index = 0
    /\ isPlaying = FALSE
    /\ timerId = 0
    /\ timers = [held |-> 0, lost |-> 0, ms |-> 0]
    /\ wpm = DefaultWpm
    /\ profileKey = "normal"
    /\ loopEnabled = FALSE
    /\ calls = 0
    /\ over = FALSE

NextLoader ==
    \/ \E l \in Loaders, k \in Slots : FetchSuccess(l, k)
    \/ \E l \in Loaders, k \in Slots : FetchFail(l, k)
    \/ \E l \in Loaders, k \in Slots : PollTick(l, k)
    \/ \E l \in Loaders : BgTimer(l)
    \/ RunMicrotask
    \/ \E l \in Loaders : StartBackgroundLoading(l)
    \/ \E l \in Loaders, count \in 0..MaxPages + 1 : LoadInitialPages(l, count)
    \/ \E l \in Loaders, p \in 0..MaxPages + 1 : LoadPage(l, p)
    \/ \E l \in Loaders : WaitForContent(l)

SpecLoader == InitLoader /\ [][NextLoader]_vars

\* Playback with one document: app.js after handlePdfUpload has created the
\* loader and init() has returned, before the sequence is attached.  The rate
\* and the profile take several values.
InitPlayback ==
    /\ loaders = <<[PdfLoader("A") EXCEPT
                      !.totalPages = MaxPages,
                      !.estimatedTotalWords = MaxPages * WordsPerPage,
                      !.ready = TRUE]>>
    /\ micro = << >>
    /\ pdfLoader = 1
    /\ isPdfMode = FALSE
    /\ words = tokenize(DefaultText)
    /\ totalWords = Len(words)
    /\ index = 0
    /\ isPlaying = FALSE
    /\ timerId = 0
    /\ timers = [held |-> 0, lost |-> 0, ms |-> 0]
    /\ wpm = DefaultWpm
    /\ profileKey = "normal"
    /\ loopEnabled \in BOOLEAN
    /\ calls = 1
    /\ over = FALSE

NextPlayback ==
    \/ \E l \in Loaders, k \in Slots : FetchSuccess(l, k)
    \/ \E l \in Loaders, k \in Slots : FetchFail(l, k)
    \/ \E l \in Loaders : BgTimer(l)
    \/ RunMicrotask
    \/ \E which \in {"held", "lost"} : TimerFire(which)
    \/ \E v \in BOOLEAN : SetPlaying(v)
    \/ \E i \in -1..3 : AdvanceTo(i)
    \/ \E v \in WpmEdited : ApplyWpm(v)
    \/ \E key \in ProfileInputs : SetProfile(key)
    \/ ToggleLoop
    \/ ApplyPdfText

SpecPlayback == InitPlayback /\ [][NextPlayback]_vars

\* Opening documents: handlePdfUpload with the page counts the provider may
\* report, zero included, then the quick start and the attachment of the
\* loader's sequence.
PageCounts == 0..MaxPages

NextUpload ==
    \/ HandlePdfUpload("A")
    \/ \E l \in Loaders, n \in PageCounts : InitDone(l, n)
    \/ LoadQuickStart
    \/ ApplyPdfText
    \/ \E l \in Loaders, k \in Slots : FetchSuccess(l, k)
    \/ \E l \in Loaders : BgTimer(l)
    \/ RunMicrotask
    \/ \E which \in {"held", "lost"} : TimerFire(which)

SpecUpload == Init /\ [][NextUpload]_vars

\* The pacing function on its own: one token is the active sequence, the rate
\* is any integer applyWpm lets through, the profile any of PAUSE_PROFILES;
\* play arms the timeout of the token with dwellMsForToken(token) (looping is
\* on, so that the only token is not the end of playback).
LongWord == <<"a", "b", "c", "d", "a", "b", "c", "d", "a">>
PacingWords ==
    { <<"a">>, <<"a", ".">>, <<"a", "!">>, <<"a", "?">>,
      <<"a", ",">>, <<"a", ";">>, <<"a", ":">>, <<"a", ".", ",">>,
      <<"7">>, <<"7", ",">>, LongWord, LongWord \o <<".">> }
PacingTokens == [word : PacingWords, isParagraphEnd : BOOLEAN]
Rates == MinWpm..MaxWpm
\* dwellMsForToken as a function also takes rates applyWpm would clamp: the
\* slowest, and those around the rate at which the interval reaches 1 ms
PacingRates == Rates \cup {1, MsPerMinute, MsPerMinute + 1}

InitPacing ==
    /\ loaders = << >>
    /\ micro = << >>
    /\ pdfLoader = 0
    /\ isPdfMode = FALSE
    /\ words \in {<<token>> : token \in PacingTokens}
    /\ totalWords = 1
    /\ index = 0
    /\ isPlaying = FALSE
    /\ timerId = 0
    /\ timers = [held |-> 0, lost |-> 0, ms |-> 0]
    /\ wpm \in PacingRates
    /\ profileKey \in DOMAIN PAUSE_PROFILES
    /\ loopEnabled = TRUE
    /\ calls = MaxCalls - 1
    /\ over = FALSE

NextPacing == SetPlaying(TRUE)

SpecPacing == InitPacing /\ [][NextPacing]_vars

\* The tokenizer on its own: app.js starts with the stored text tokenized
\* (init: words = tokenize(inputText)), any text of up to MaxTextLen
\* characters, and setText replaces the sequence.
TextChars == {"a", "7", ".", "'", " ", "\n", "\r"}
RECURSIVE TextsUpTo(_)
TextsUpTo(n) ==
    IF n = 0 THEN {<< >>}
    ELSE LET shorter == TextsUpTo(n - 1)
         IN shorter \cup {Append(t, c) : t \in shorter, c \in TextChars}
TokenizerTexts == TextsUpTo(MaxTextLen)
SetTextInputs ==
    { << >>, <<" ">>, <<".">>, <<"a", "\n", "\n">>, <<"a", "\n", "\n", ".">>,
      DefaultText }

InitTokenize ==
    /\ loaders = << >>
    /\ micro = << >>
    /\ pdfLoader = 0
    /\ isPdfMode = FALSE
    /\ \E text \in TokenizerTexts : words = tokenize(text)
    /\ totalWords = Len(words)
    /\ index = 0
    /\ isPlaying = FALSE
    /\ timerId = 0
    /\ timers = [held |-> 0, lost |-> 0, ms |-> 0]
    /\ wpm = DefaultWpm
    /\ profileKey = "normal"
    /\ loopEnabled = FALSE
    /\ calls = MaxCalls - 2
    /\ over = FALSE

NextTokenize ==
    \/ \E text \in SetTextInputs : SetText(text)
    \/ \E which \in {"held", "lost"} : TimerFire(which)

SpecTokenize == InitTokenize /\ [][NextTokenize]_vars

\* Waiters of both kinds on one loader: the scheduler, once the loader's
\* sequence is attached, and other callers of waitForContent.
NextWaiters ==
    \/ ApplyPdfText
    \/ SetPlaying(TRUE)
    \/ \E l \in Loaders : WaitForContent(l)
    \/ \E l \in Loaders, k \in Slots : FetchSuccess(l, k)
    \/ \E l \in Loaders, k \in Slots : FetchFail(l, k)
    \/ \E l \in Loaders : BgTimer(l)
    \/ RunMicrotask
    \/ \E which \in {"held", "lost"} : TimerFire(which)

SpecWaiters == InitPlayback /\ [][NextWaiters]_vars

\* The estimate of the total: the long document, of which init() has
\* reported any number of pages up to MaxEstimatePages, loaded by one
\* background cycle in which any request may fail.
InitEstimate ==
    /\ \E n \in 1..MaxEstimatePages :
          loaders = <<[PdfLoader("C") EXCEPT
                         !.totalPages = n,
                         !.estimatedTotalWords = n * WordsPerPage,
                         !.ready = TRUE]>>
    /\ micro = << >>
    /\ pdfLoader = 1
    /\ isPdfMode = FALSE
    /\ words = tokenize(DefaultText)
    /\ totalWords = Len(words)
    /\ index = 0
    /\ isPlaying = FALSE
    /\ timerId = 0
    /\ timers = [held |-> 0, lost |-> 0, ms |-> 0]
    /\ wpm = DefaultWpm
    /\ profileKey = "normal"
    /\ loopEnabled = FALSE
    /\ calls = 0
    /\ over = FALSE

NextEstimate ==
    \/ \E l \in Loaders : StartBackgroundLoading(l)
    \/ \E l \in Loaders, k \in Slots : FetchSuccess(l, k)
    \/ \E l \in Loaders, k \in Slots : FetchFail(l, k)
    \/ \E l \in Loaders : BgTimer(l)
    \/ RunMicrotask

SpecEstimate == InitEstimate /\ [][NextEstimate]_vars

\* ------------------------------------------------------------------ claims
\* C1 (as stated): at most one timeout of scheduleNext is pending.
C1_AtMostOneTimer == Armed(timers) <= 1

\* C2 (as stated): with a non-empty active sequence the cursor is inside it.
C2_IndexInRange == Len(words) > 0 => (0 <= index /\ index <= Len(words) - 1)

Loader(l) == loaders[l]
LoadedSet(L) == DOMAIN L.loadedPages
\* the requests outstanding for page p
Outstanding(L, p) == Cardinality({k \in 1..Len(L.inflight) : L.inflight[k].page = p})
\* the page whose range holds index i (indices from 0)
OwnerOf(L, i) ==
    CHOOSE q \in DOMAIN L.pageWordRanges :
        L.pageWordRanges[q].start <= i /\ i <= L.pageWordRanges[q].end
RECURSIVE ConcatPages(_, _)
ConcatPages(L, pages) ==
    IF pages = << >> THEN << >>
    ELSE L.loadedPages[Head(pages)].words \o ConcatPages(L, Tail(pages))

\* C3 (as stated): once index i of allWords holds a token, it holds the same
\* token in every later state, whatever the order in which the pages arrive.
C3_IndexStable ==
    [][\A l \in Loaders : \A i \in 1..Len(Loader(l).allWords) :
          /\ Len(Loader(l).allWords') >= i
          /\ Loader(l).allWords'[i] = Loader(l).allWords[i]]_vars

\* C3 (amended): the token at index i stays the same across every step in
\* which no page with a lower ordinal than the page holding index i arrives;
\* a page above all loaded ordinals only extends the sequence.
C3_StableUnlessLowerPageArrives ==
    [][\A l \in Loaders : \A i \in 1..Len(Loader(l).allWords) :
          (\A q \in LoadedSet(Loader(l)') \ LoadedSet(Loader(l)) :
               q > OwnerOf(Loader(l), i - 1))
          => /\ Len(Loader(l).allWords') >= i
             /\ Loader(l).allWords'[i] = Loader(l).allWords[i]]_vars

\* C3 witness: page 2 arrived after page 1 and extended the sequence
C3_Witness ==
    \E l \in Loaders :
       /\ Loader(l).arrived = <<1, 2>>
       /\ Len(Loader(l).allWords) > Len(Loader(l).loadedPages[1].words)
       /\ Len(Loader(l).loadedPages[1].words) > 0

\* C4: the length of allWords never decreases across a step.
C4_LengthMonotone ==
    [][\A l \in Loaders : Len(Loader(l).allWords') >= Len(Loader(l).allWords)]_vars

\* C4 witness: a request has failed after tokens were aggregated, and a page
\* arrived out of order
C4_Witness ==
    \E l \in Loaders :
       /\ Loader(l).failed # {}
       /\ Len(Loader(l).arrived) = 2
       /\ Len(Loader(l).allWords) > 0

\* C5: the ranges of the loaded pages are in ordinal order, contiguous from
\* 0, cover exactly [0, len - 1], and allWords is the concatenation of the
\* loaded pages' tokens in ascending ordinal order.
C5_RangesPartition ==
    \A l \in Loaders :
       LET L == Loader(l)
           pages == SortedSeq(LoadedSet(L))
           n == Len(pages)
       IN /\ DOMAIN L.pageWordRanges = LoadedSet(L)
          /\ L.allWords = ConcatPages(L, pages)
          /\ n = 0 => Len(L.allWords) = 0
          /\ n > 0 => /\ L.pageWordRanges[pages[1]].start = 0
                      /\ L.pageWordRanges[pages[n]].end = Len(L.allWords) - 1
          /\ \A j \in 1..n :
                L.pageWordRanges[pages[j]].end - L.pageWordRanges[pages[j]].start + 1
                  = Len(L.loadedPages[pages[j]].words)
          /\ \A j \in 1..(n - 1) :
                L.pageWordRanges[pages[j + 1]].start
                  = L.pageWordRanges[pages[j]].end + 1

\* C5 witness: page 1 arrived after page 2, both with tokens
C5_Witness ==
    \E l \in Loaders :
       /\ Loader(l).arrived = <<2, 1>>
       /\ Loader(l).pageWordRanges[1].end >= 0
       /\ Loader(l).pageWordRanges[2].start > 0

\* C6: at most one request per page is outstanding; a request is issued only
\* for a page that is neither loading nor loaded.
C6_OneFetchPerPage ==
    [][\A l \in Loaders : \A p \in 1..MaxPages + 1 :
          /\ Outstanding(Loader(l)', p) <= 1
          /\ Outstanding(Loader(l)', p) > Outstanding(Loader(l), p)
             => /\ p \notin Loader(l).loadingPages
                /\ p \notin LoadedSet(Loader(l))]_vars

\* C6 witness: a caller found the page loading and joined the one request
C6_Witness ==
    \E l \in Loaders : \E k \in 1..Len(Loader(l).pollers) :
       /\ Loader(l).pollers[k].page \in Loader(l).loadingPages
       /\ Outstanding(Loader(l), Loader(l).pollers[k].page) = 1

\* Every request of the loader has completed, every timeout has fired, every
\* interval tick that releases a caller has happened and every promise
\* reaction has run: nothing more happens without a new call from outside.
Quiet(l) ==
    /\ micro = << >>
    /\ Loader(l).inflight = << >>
    /\ Loader(l).bgTimers = 0
    /\ \A k \in 1..Len(Loader(l).pollers) :
          Loader(l).pollers[k].page \notin LoadedSet(Loader(l))

\* C7 (as stated): every waiter registered through waitForContent() is
\* released once every request has completed and every timer has fired: no
\* waiter is left in the queue of a loader that has come to rest.
C7_NoLostWakeup ==
    \A l \in Loaders : Quiet(l) => Loader(l).contentWaiters = << >>

\* C8 (as stated): a queued waiter is released only in a state without an
\* outstanding request and without an active background cycle.
C8_ReleasedOnlyWhenQuiet ==
    [][\A l \in Loaders :
          Len(Loader(l).contentWaiters') < Len(Loader(l).contentWaiters)
          => /\ Loader(l).loadingPages' = {}
             /\ ~Loader(l).isBackgroundLoading']_vars

\* C8 (amended): a waiter is queued only while a request is outstanding or a
\* background cycle is active, and queued waiters are released only by the
\* arrival of a page of that loader, all of them at once.
C8_ReleasedByPageArrival ==
    [][\A l \in Loaders :
          /\ Len(Loader(l).contentWaiters') < Len(Loader(l).contentWaiters)
             => /\ LoadedSet(Loader(l)') # LoadedSet(Loader(l))
                /\ Loader(l).contentWaiters' = << >>
          /\ Len(Loader(l).contentWaiters') > Len(Loader(l).contentWaiters)
             => \/ Loader(l).loadingPages # {}
                \/ Loader(l).isBackgroundLoading]_vars

\* C8 witness: a waiter has just been released by a page arriving while the
\* background cycle is active
C8_Witness ==
    \E l \in Loaders :
       /\ Loader(l).isBackgroundLoading
       /\ Loader(l).arrived # << >>
       /\ \E k \in 1..Len(micro) : micro[k].k = "waiter" /\ micro[k].l = l

\* C9 (as stated): a caller that found the page loading is released once the
\* request has completed; after a failed request no such caller is left
\* waiting (after a successful one it waits for the next interval tick).
C9_JoinedCallerReleased ==
    \A l \in Loaders : \A k \in 1..Len(Loader(l).pollers) :
       \/ Loader(l).pollers[k].page \in Loader(l).loadingPages
       \/ Loader(l).pollers[k].page \in LoadedSet(Loader(l))

\* C10 (as stated): once started, background loading terminates and signals
\* completion when every request has completed and every timer has fired: a
\* loader that has come to rest has no background cycle left active.
C10_BackgroundTerminates ==
    \A l \in Loaders : Quiet(l) => ~Loader(l).isBackgroundLoading

\* C11 (as stated): when the loader has signalled completion (allPagesLoaded,
\* onAllPagesLoaded called), every ordinal in 1..totalPages is loaded or has
\* had a failed request.
C11_CompletionMeansAllAttempted ==
    \A l \in Loaders :
       (Loader(l).allPagesLoaded \/ Loader(l).signalled > 0)
       => \A p \in 1..Loader(l).totalPages :
             p \in LoadedSet(Loader(l)) \/ p \in Loader(l).failed

\* C12: onAllPagesLoaded is called at most once for one loader.
C12_SignalledAtMostOnce ==
    \A l \in Loaders : Loader(l).signalled <= 1

\* C12 witness: completion has been signalled after a request failed
C12_Witness ==
    \E l \in Loaders :
       /\ Loader(l).signalled = 1
       /\ Loader(l).allPagesLoaded
       /\ Loader(l).failed # {}

\* the continuations of _loadNextPageInBackground pending for loader l: its
\* own request, a request it joined, its resumption after the await, its timeout
BackgroundCycles(l) ==
    Cardinality({k \in 1..Len(Loader(l).inflight) : Loader(l).inflight[k].who = "bg"})
    + Cardinality({k \in 1..Len(Loader(l).pollers) : Loader(l).pollers[k].who = "bg"})
    + Cardinality({k \in 1..Len(micro) :
                     micro[k].k = "cont" /\ micro[k].who = "bg" /\ micro[k].l = l})
    + Loader(l).bgTimers

\* C13: startBackgroundLoading() called while a cycle is running or after
\* completion changes nothing, and at most one background cycle is pending at
\* any time.
C13_StartIdempotent ==
    [][\A l \in Loaders :
          /\ (StartBackgroundLoading(l)
               /\ (Loader(l).isBackgroundLoading \/ Loader(l).allPagesLoaded))
             => (loaders' = loaders /\ micro' = micro)
          /\ BackgroundCycles(l)' <= 1]_vars

\* C13 witness: the cycle is in its inter-page delay and further calls of the
\* loader's interface have been made
C13_Witness ==
    \E l \in Loaders :
       /\ Loader(l).isBackgroundLoading
       /\ Loader(l).bgTimers = 1
       /\ calls >= 2

\* The oldest reaction is the then-callback of scheduleNext and running it
\* leaves the program exactly where it is, with the same reaction queued
\* again: the reaction queue never empties and no task runs any more.
Spinning ==
    /\ micro # << >>
    /\ Head(micro).k = "waiter"
    /\ Head(micro).who = "sched"
    /\ contentCallback([World EXCEPT !.micro = Tail(@)]) = World

\* Nothing more happens unless the user acts: no request, timeout or interval
\* release is pending, and the reaction queue is empty or spinning.
AtRest ==
    /\ \A l \in Loaders :
          /\ Loader(l).inflight = << >>
          /\ Loader(l).bgTimers = 0
          /\ \A k \in 1..Len(Loader(l).pollers) :
                Loader(l).pollers[k].page \notin LoadedSet(Loader(l))
    /\ Armed(timers) = 0
    /\ (micro = << >> \/ Spinning)

\* C14 (as stated): with the loader's sequence active, looping disabled, some
\* page requests failed, the others loaded and the background cycle complete
\* after attempting every ordinal, the scheduler does not come to rest while
\* Playing: it reaches the last token and pauses.
C14_FailedPageDoesNotBlock ==
    (/\ isPdfMode
     /\ pdfLoader # 0
     /\ ~loopEnabled
     /\ Loader(pdfLoader).allPagesLoaded
     /\ Loader(pdfLoader).nextPageToLoad > Loader(pdfLoader).totalPages
     /\ Loader(pdfLoader).failed # {}
     /\ LoadedSet(Loader(pdfLoader)) # {}
     /\ \A p \in 1..Loader(pdfLoader).totalPages :
           p \in LoadedSet(Loader(pdfLoader)) \/ p \in Loader(pdfLoader).failed
     /\ AtRest)
    => ~isPlaying

\* the indices a caller may pass to needsMoreContent
Indices(L) == -1..(Len(L.allWords) + 1)

\* the background cycle has completed and every page is loaded
CompleteAndLoaded(L) ==
    /\ L.allPagesLoaded
    /\ LoadedSet(L) = 1..L.totalPages

\* C15: once the background cycle has completed with every page loaded,
\* needsMoreContent(i) is false for every index i, and this stays so across
\* every later step.
C15_NeedsMoreStaysFalse ==
    [][\A l \in Loaders :
          CompleteAndLoaded(Loader(l))
          => /\ \A i \in Indices(Loader(l)) : ~needsMoreContent(Loader(l), i)
             /\ CompleteAndLoaded(Loader(l)')
             /\ \A i \in Indices(Loader(l)') : ~needsMoreContent(Loader(l)', i)]_vars

\* C15 witness: the cycle has signalled completion with both pages loaded
C15_Witness ==
    \E l \in Loaders :
       /\ CompleteAndLoaded(Loader(l))
       /\ Loader(l).totalPages = MaxPages
       /\ Loader(l).signalled = 1
       /\ Len(Loader(l).allWords) > 0

\* C16: needsMoreContent(i) is true exactly when fewer than totalPages pages
\* are loaded and i >= len(allWords) - 10.
C16_NeedsMoreIff ==
    \A l \in Loaders : \A i \in Indices(Loader(l)) :
       needsMoreContent(Loader(l), i)
       <=> (/\ Cardinality(LoadedSet(Loader(l))) < Loader(l).totalPages
            /\ i >= Len(Loader(l).allWords) - 10)

\* C16 witness: pages remain to be loaded, index 0 is farther than the
\* lookahead from the end and index len - 10 is at the lookahead
C16_Witness ==
    \E l \in Loaders :
       /\ Cardinality(LoadedSet(Loader(l))) < Loader(l).totalPages
       /\ Len(Loader(l).allWords) > 10
       /\ ~needsMoreContent(Loader(l), 0)
       /\ needsMoreContent(Loader(l), Len(Loader(l).allWords) - 10)

\* Loader l has been replaced and the active sequence has been switched: the
\* scheduler reads a text (isPdfMode is false), or the sequence of the present
\* loader has been attached (only applyPdfText starts its background cycle).
Discarded(l) ==
    /\ l # pdfLoader
    /\ \/ ~isPdfMode
       \/ /\ pdfLoader # 0
          /\ (Loader(pdfLoader).isBackgroundLoading \/ Loader(pdfLoader).allPagesLoaded)

\* a step made by loader l: a request completes, an interval or timeout of
\* the loader fires, a promise reaction of the loader runs
EventOf(l) ==
    \/ \E k \in Slots : FetchSuccess(l, k) \/ FetchFail(l, k) \/ PollTick(l, k)
    \/ BgTimer(l)
    \/ (micro # << >> /\ Head(micro).l = l /\ RunMicrotask)

\* C17 (as stated): a step made by a discarded loader changes neither the
\* active sequence, nor the total, nor the cursor, nor the timers of the
\* scheduler.
C17_DiscardedLoaderInert ==
    [][\A l \in Loaders :
          (Discarded(l) /\ EventOf(l))
          => /\ words' = words
             /\ totalWords' = totalWords
             /\ index' = index
             /\ timers' = timers
             /\ timerId' = timerId]_vars

\* C18: setPlaying(false) pauses and cancels the timeout whose handle timerId
\* holds, leaving the cursor and the sequence alone; while Paused a timeout
\* that fires (one whose handle was lost cannot be cancelled) changes nothing
\* but its own disappearance; setPlaying(false) while Paused changes nothing.
C18_PauseHonoured ==
    [][/\ SetPlaying(FALSE)
          => /\ ~isPlaying'
             /\ timerId' = 0
             /\ timers'.held = 0
             /\ index' = index
             /\ words' = words
       /\ (~isPlaying /\ \E which \in {"held", "lost"} : TimerFire(which))
          => /\ ~isPlaying'
             /\ index' = index
             /\ words' = words
             /\ totalWords' = totalWords
             /\ timerId' = timerId
             /\ Armed(timers') = Armed(timers) - 1
             /\ micro' = micro
             /\ loaders' = loaders
       /\ (~isPlaying /\ SetPlaying(FALSE))
          => UNCHANGED <<loaders, micro, pdfLoader, isPdfMode, words, totalWords,
                         index, isPlaying, timerId, timers, wpm, profileKey,
                         loopEnabled>>]_vars

\* C18 witness: Paused with a timeout still pending, after pause was called
\* while two timeouts were pending
C18_Witness ==
    /\ ~isPlaying
    /\ timers.lost > 0
    /\ timers.held = 0
    /\ index < Len(words) - 1

\* scheduleNext, called now, would wait for content instead of arming a timeout
Starved ==
    /\ isPdfMode
    /\ pdfLoader # 0
    /\ needsMoreContent(Loader(pdfLoader), index)
    /\ index >= Len(words) - 1

\* scheduleNext, called now while Playing, arms a timeout for words[index]
CanArm ==
    /\ ~Starved
    /\ (loopEnabled \/ index < Len(words) - 1)
    /\ index + 1 <= Len(words)

\* C19: pause and resume leave the cursor where it is; resuming arms a
\* timeout for the token at the cursor with its full dwell; every timeout that
\* fires while Playing moves the cursor to index + 1, or to 0 when looping at
\* the last index (and pauses in place at the last index otherwise).
C19_PauseResumeKeepsCursor ==
    [][/\ (\E v \in BOOLEAN : SetPlaying(v))
          => (index' = index /\ words' = words)
       /\ (~isPlaying /\ wpm # NaN /\ SetPlaying(TRUE) /\ CanArm)
          => /\ isPlaying'
             /\ timers'.held = 1
             /\ timers'.ms = dwellMsForToken(words[index + 1], wpm, profileKey)
       /\ (isPlaying /\ \E which \in {"held", "lost"} : TimerFire(which))
          => index' = IF index < Len(words) - 1 THEN index + 1
                      ELSE IF loopEnabled THEN 0
                      ELSE index]_vars

\* C19 witness: Playing again on the second token after play, an advance,
\* pause and play
C19_Witness ==
    /\ isPlaying
    /\ ~isPdfMode
    /\ index = 1
    /\ timers.held = 1
    /\ timers.ms = dwellMsForToken(words[2], wpm, profileKey)
    /\ calls >= 4

\* A rate or profile change: applyWpm with any input, setProfile with the
\* key of a profile
RateChange ==
    \/ \E v \in WpmEdited : ApplyWpm(v)
    \/ \E key \in ProfileInputs \cap DOMAIN PAUSE_PROFILES : SetProfile(key)

C21_SeekRearms ==
    [][(/\ isPlaying
        /\ timers.held = 1
        /\ Len(words) > 0
        /\ \E i \in -1..3 : AdvanceTo(i))
          => /\ index' \in 0..(Len(words) - 1)
             /\ timers'.held = 1
             /\ timers'.ms = dwellMsForToken(words[index' + 1], wpm, profileKey)]_vars

\* A switch of the active sequence: setText with a text, or applyPdfText
SwitchSequence ==
    \/ \E text \in Texts : SetText(text)
    \/ ApplyPdfText

\* C22: every switch of the active sequence leaves the cursor at index 0 and
\* leaves no timeout pending that was armed for a token of the sequence
\* before: none outside timerId, and the one in timerId, if any, has the dwell
\* of the first token of the new sequence.
C22_SwitchResetsCursor ==
    [][SwitchSequence
          => /\ index' = 0
             /\ timers'.lost = 0
             /\ timers'.held = 1
                  => /\ Len(words') > 0
                     /\ timers'.ms = dwellMsForToken(words'[1], wpm, profileKey)]_vars

\* C23: play from Paused with a rate that gives the current token a defined
\* dwell ends Playing with exactly one timeout armed, that of the current
\* token, at every cursor position, the last index with looping off included.
C23_PlayArmsOneTimer ==
    [][(/\ ~isPlaying
        /\ index + 1 <= Len(words)
        /\ dwellMsForToken(words[index + 1], wpm, profileKey) \notin {-1, NaN}
        /\ SetPlaying(TRUE))
          => /\ isPlaying'
             /\ Armed(timers') = 1
             /\ timers'.held = 1
             /\ timers'.ms = dwellMsForToken(words[index + 1], wpm, profileKey)]_vars

\* The rates the scheduler cannot pace with: not a number, or not positive
InvalidRate(w) == w = NaN \/ w <= 0

\* C24: with an invalid rate the dwell computation returns null and a play
\* request leaves the scheduler Paused with no timeout armed.
C24_InvalidRateStaysPaused ==
    [][(InvalidRate(wpm) /\ SetPlaying(TRUE))
          => /\ baseIntervalMs(wpm) = -1
             /\ ~isPlaying'
             /\ Armed(timers') = 0]_vars

\* C25: init() on a source of zero pages fails: no loader whose init() has
\* returned has totalPages = 0, and none with totalPages = 0 has started
\* a background cycle or signalled completion.
C25_ZeroPagesRejected ==
    \A l \in Loaders :
        loaders[l].totalPages = 0
          => /\ ~loaders[l].ready
             /\ ~loaders[l].isBackgroundLoading
             /\ ~loaders[l].allPagesLoaded
             /\ loaders[l].signalled = 0

SentenceMarks == {".", "!", "?"}
CommaMarks == {",", ";", ":"}

\* C26: for every profile, every integer rate in [50, 1500] and every token,
\* the dwell of a token ending in . ! ? is at least profile.minSentenceMs and
\* the dwell of a token ending in , ; : is at least profile.minCommaMs, and
\* the timeout armed for the token has that dwell.
C26_DwellFloors ==
    LET token == words[index + 1]
        profile == PAUSE_PROFILES[profileKey]
        dwell == dwellMsForToken(token, wpm, profileKey)
    IN wpm \in Rates =>
       /\ EndsWith(token.word, SentenceMarks) => dwell >= profile.minSentenceMs
       /\ EndsWith(token.word, CommaMarks) => dwell >= profile.minCommaMs
       /\ timers.held = 1 => timers.ms = dwell

\* C26 witness: a timeout armed with exactly minSentenceMs for a
\* sentence-ending token whose boosted interval is shorter, and likewise one
\* raised to minCommaMs exists at the same rate
C26_Witness ==
    /\ timers.held = 1
    /\ EndsWith(words[1].word, SentenceMarks)
    /\ timers.ms = PAUSE_PROFILES[profileKey].minSentenceMs
    /\ (baseIntervalMs(wpm) * PAUSE_PROFILES[profileKey].sentence) \div 10 < timers.ms
    /\ dwellMsForToken([word |-> <<"a", ",">>, isParagraphEnd |-> FALSE], wpm, profileKey)
         = PAUSE_PROFILES[profileKey].minCommaMs

\* C27: for every token, profile and rate > 0, dwellMsForToken equals the
\* reference: base = max(1, floor(60000 / wpm)); multiplier = the largest of
\* 1.0 and the boosts that apply (sentence for a last character . ! ?, else
\* comma for , ; :; longWord for more than 8 letters or digits; number for
\* any digit; paragraph for isParagraphEnd); dwell = floor(base * multiplier),
\* raised to minSentenceMs or minCommaMs for sentence- or comma-ending
\* tokens.  Multipliers are in tenths.  Normal profile at 300 wpm: 600 for a
\* short sentence-ending word, 200 for a plain short word.
C27_DwellMatchesReference ==
    LET token == words[index + 1]
        word == token.word
        profile == PAUSE_PROFILES[profileKey]
        last == IF Len(word) > 0 THEN word[Len(word)] ELSE ""
        sentence == last \in {".", "!", "?"}
        comma == ~sentence /\ last \in {",", ";", ":"}
        boosts ==
            {10}
            \cup (IF sentence THEN {profile.sentence} ELSE {})
            \cup (IF comma THEN {profile.comma} ELSE {})
            \cup (IF Cardinality({i \in DOMAIN word : IsLN(word[i])}) > 8
                  THEN {profile.longWord} ELSE {})
            \cup (IF \E i \in DOMAIN word : word[i] \in Digits
                  THEN {profile.number} ELSE {})
            \cup (IF token.isParagraphEnd THEN {profile.paragraph} ELSE {})
        multiplier == CHOOSE m \in boosts : \A b \in boosts : m >= b
        floorDiv == 60000 \div wpm
        base == IF floorDiv >= 1 THEN floorDiv ELSE 1
        scaled == (base * multiplier) \div 10
        floorMs == IF sentence THEN profile.minSentenceMs
                   ELSE IF comma THEN profile.minCommaMs ELSE 0
        reference == IF scaled >= floorMs THEN scaled ELSE floorMs
    IN wpm > 0 =>
       /\ dwellMsForToken(token, wpm, profileKey) = reference
       /\ timers.held = 1 => timers.ms = reference
       /\ dwellMsForToken([word |-> <<"a", ".">>, isParagraphEnd |-> FALSE],
                          300, "normal") = 600
       /\ dwellMsForToken([word |-> <<"a">>, isParagraphEnd |-> FALSE],
                          300, "normal") = 200

\* C27 witness: the timeout of a long, paragraph-ending, sentence-ending word
\* armed at a rate that does not divide 60000, with the normal profile: the
\* largest boost (3.0) applies once
C27_Witness ==
    /\ timers.held = 1
    /\ words[1] = [word |-> LongWord \o <<".">>, isParagraphEnd |-> TRUE]
    /\ profileKey = "normal"
    /\ wpm = 350
    /\ timers.ms = 513

\* The one token tokenize returns when the text holds no word
SpaceToken == <<[word |-> <<" ">>, isParagraphEnd |-> FALSE]>>

\* a text without a letter or a digit: empty, white space, punctuation
NoWord(text) == \A i \in DOMAIN text : ~IsLN(text[i])

\* C28: tokenize is total and deterministic: it returns a non-empty sequence
\* for every text, what a call returns depends on its text alone, and a text
\* that is empty or holds only white space and punctuation gives exactly one
\* token, a single space with isParagraphEnd false.
C28_TokenizeTotal ==
    /\ [](/\ Len(words) >= 1
          /\ \A text \in TokenizerTexts :
                LET output == tokenize(text)
                IN /\ Len(output) >= 1
                   /\ \A i \in DOMAIN output : Len(output[i].word) >= 1
                   /\ NoWord(text) => output = SpaceToken)
    /\ [][\A text \in SetTextInputs :
             SetText(text)
               => /\ words' = tokenize(text)
                  /\ totalWords' = Len(words')
                  /\ NoWord(text) => words' = SpaceToken]_vars

\* C28 witness: setText with a text of white space or punctuation has left
\* the single space token as the active sequence
C28_Witness ==
    /\ calls > MaxCalls - 2
    /\ words = SpaceToken
    /\ totalWords = 1
    /\ index = 0

\* C29: the final token of the sequence tokenize returns is never flagged
\* isParagraphEnd, whatever the text: trailing blank lines and paragraphs
\* without a token included (only the final token of a paragraph followed by
\* another paragraph with tokens is flagged).
C29_LastTokenNotParagraphEnd ==
    ~isPdfMode => ~words[Len(words)].isParagraphEnd

\* C30: after any call applyWpm(v), whether v is below 50, above 1500 or not
\* a number, the configured rate is a number in [50, 1500].
C30_RateClamped ==
    [][(\E v \in WpmEdited : ApplyWpm(v))
          => /\ wpm' # NaN
             /\ wpm' >= 50
             /\ wpm' <= 1500]_vars

\* C31: when a timeout fires while Playing and the scheduler is not starved:
\* at the last index with looping off the state becomes Paused and the index
\* stays; at the last index with looping on the index becomes 0; anywhere
\* else the index becomes index + 1.
C31_TimerFireStep ==
    [][(/\ isPlaying
        /\ ~Starved
        /\ \E which \in {"held", "lost"} : TimerFire(which))
          => IF index = Len(words) - 1 /\ ~loopEnabled
             THEN ~isPlaying' /\ index' = index
             ELSE IF index = Len(words) - 1
             THEN index' = 0
             ELSE index' = index + 1]_vars

\* C32: with the loader's sequence active, the index never advances while
\* needsMoreContent(index) is true: no timeout of the scheduler that fires in
\* such a state moves the cursor (the scheduler waits instead of arming one).
C32_NoAdvanceWhileNeedsMore ==
    [][(/\ isPdfMode
        /\ pdfLoader # 0
        /\ isPlaying
        /\ needsMoreContent(Loader(pdfLoader), index)
        /\ \E which \in {"held", "lost"} : TimerFire(which))
          => index' = index]_vars

\* C33: when a page load succeeds, every waiter registered at that moment is
\* released by that event, in the order of registration (their continuations
\* are queued oldest first, ahead of the continuation of the load itself),
\* and the waiter queue is empty afterwards.
C33_AllWaitersReleasedInOrder ==
    [][\A l \in Loaders, k \in Slots :
          FetchSuccess(l, k)
            => LET waiters == loaders[l].contentWaiters IN
               /\ loaders'[l].contentWaiters = << >>
               /\ Len(micro') >= Len(waiters)
               /\ \A i \in 1..Len(waiters) :
                     micro'[i] = Task("waiter", waiters[i], l, TRUE)
               /\ \A i \in (Len(waiters) + 1)..Len(micro') :
                     micro'[i].k # "waiter"]_vars

\* C33 witness: one page load has just released two waiters of different
\* callers, whose continuations are queued and not yet run
C33_Witness ==
    /\ Len(micro) >= 2
    /\ micro[1].k = "waiter"
    /\ micro[2].k = "waiter"
    /\ micro[1].who # micro[2].who
    /\ loaders[micro[1].l].contentWaiters = << >>
    /\ loaders[micro[1].l].arrived # << >>

\* C34: Failed is terminal for a page: no request is ever under way for an
\* ordinal of which a request has failed.
C34_FailedNeverRetried ==
    \A l \in Loaders :
        \A k \in 1..Len(loaders[l].inflight) :
            loaders[l].inflight[k].page \notin loaders[l].failed

\* C35: the estimated total is totalPages * 250 from init until the first
\* page loads, and with n >= 1 pages loaded it is
\* ceil(len(allWords) * totalPages / n).
C35_EstimateFormula ==
    \A l \in Loaders :
        LET L == loaders[l]
            n == Cardinality(DOMAIN L.loadedPages)
        IN /\ (L.ready /\ n = 0) => L.estimatedTotalWords = L.totalPages * 250
           /\ n >= 1 => L.estimatedTotalWords * n >= Len(L.allWords) * L.totalPages
           /\ n >= 1 => (L.estimatedTotalWords - 1) * n < Len(L.allWords) * L.totalPages

\* the continuation of loadInitialPages after a load that succeeded is next
InitResumesOk(l) == micro # << >> /\ Head(micro) = Task("cont", "init", l, TRUE)

\* C36: loadInitialPages(count) takes pagesToLoad = min(count, totalPages);
\* it waits for page k only when the pages 1..k-1 are loaded and k is at most
\* pagesToLoad; and when it returns, the pages 1..pagesToLoad are loaded
\* and nextPageToLoad is pagesToLoad + 1.
C36_InitialPagesInOrder ==
    [][\A l \in Loaders :
         LET L == loaders[l]
             L2 == loaders'[l]
             Waiting == {L2.inflight[k] : k \in 1..Len(L2.inflight)}
                           \cup {L2.pollers[k] : k \in 1..Len(L2.pollers)}
         IN /\ \A count \in 0..MaxPages + 1 :
                  LoadInitialPages(l, count)
                     => L2.ini.pagesToLoad = Min(count, L.totalPages)
            /\ \A e \in Waiting :
                  e.who = "init"
                     => /\ L2.ini.active
                        /\ e.page = L2.ini.i
                        /\ e.page <= L2.ini.pagesToLoad
                        /\ 1..(e.page - 1) \subseteq DOMAIN L2.loadedPages
            /\ (~L2.ini.active
                /\ \/ L.ini.active /\ InitResumesOk(l) /\ RunMicrotask
                   \/ \E count \in 0..MaxPages + 1 : LoadInitialPages(l, count))
                  => /\ L2.nextPageToLoad = L2.ini.pagesToLoad + 1
                     /\ 1..L2.ini.pagesToLoad \subseteq DOMAIN L2.loadedPages]_vars

C36_Witness ==
    \E l \in Loaders :
        /\ calls = 1
        /\ ~loaders[l].ini.active
        /\ loaders[l].ini.pagesToLoad = MaxPages
        /\ loaders[l].arrived = <<1, 2>>
        /\ loaders[l].nextPageToLoad = MaxPages + 1
        /\ micro = << >>

\* Playback of a static text: the user's operations on the scheduler and the
\* timeouts, under the scheduling of the event loop (a timeout that is set
\* fires).
NextRun ==
    \/ \E which \in {"held", "lost"} : TimerFire(which)
    \/ \E v \in BOOLEAN : SetPlaying(v)
    \/ \E i \in -1..3 : AdvanceTo(i)
    \/ \E v \in WpmEdited : ApplyWpm(v)
    \/ ToggleLoop
    \/ \E text \in {OneWordText, DefaultText} : SetWords(tokenize(text))

SpecRun ==
    /\ InitPlayback
    /\ [][NextRun]_vars
    /\ WF_vars(TimerFire("held"))
    /\ WF_vars(TimerFire("lost"))

\* a static text is playing without looping at a valid rate, and the user
\* makes no further call
StaticRun ==
    /\ ~isPdfMode /\ ~loopEnabled /\ isPlaying
    /\ wpm \in MinWpm..MaxWpm
    /\ calls = MaxCalls

\* C37: with a static text, looping disabled, a valid rate and no further
\* user operation, every timer step of a playing scheduler advances the index
\* by 1 or pauses it at len - 1, and the scheduler eventually is paused with
\* index = len - 1.
C37_PlaybackTerminates ==
    /\ [][(StaticRun /\ \E which \in {"held", "lost"} : TimerFire(which))
             => \/ index' = index + 1
                \/ ~isPlaying' /\ index' = index /\ index = Len(words) - 1]_vars
    /\ (StaticRun ~> (~isPlaying /\ index = Len(words) - 1))

\* Playback of a document whose pages may hold no token: a loader of either
\* file whose init() has returned, the quick start, the attachment of its
\* sequence and the loop switch.
NextEmpty ==
    \/ LoadQuickStart
    \/ ApplyPdfText
    \/ ToggleLoop
    \/ \E v \in BOOLEAN : SetPlaying(v)
    \/ \E l \in Loaders, k \in Slots : FetchSuccess(l, k)
    \/ \E l \in Loaders, k \in Slots : FetchFail(l, k)
    \/ \E l \in Loaders : BgTimer(l)
    \/ RunMicrotask
    \/ \E which \in {"held", "lost"} : TimerFire(which)

SpecEmpty == InitLoader /\ [][NextEmpty]_vars

\* C38: no handler that can run computes a dwell for a token that does not
\* exist: setPlaying(true), applyPdfText, the timeout callback and the
\* continuation of waitForContent all reach dwellMsForToken with
\* 0 <= index < len(words), also when the attached sequence is empty.
C38_DwellTokenExists ==
    /\ Idle =>
         /\ ~setPlaying(World, TRUE).thrown
         /\ ~applyPdfText(World).thrown
         /\ \A which \in {"held", "lost"} :
               timers[which] > 0 => ~timerCallback(World).thrown
    /\ (micro # << >> /\ Head(micro).k = "waiter" /\ Head(micro).who = "sched")
          => ~contentCallback([World EXCEPT !.micro = Tail(@)]).thrown

\* C40: the tokens the loader stores for a loaded page (tokenizePage of the
\* page text) are the tokens tokenize returns for the same text, also for a
\* text that is empty or holds only white space and punctuation.
C40_TokenizePageIsTokenize ==
    \A l \in Loaders : \A p \in DOMAIN loaders[l].loadedPages :
        loaders[l].loadedPages[p].words = tokenize(PageText(loaders[l].file, p))

\* The user interface alone: file upload, the two loading choices, and Apply
\* in the text dialogue (which is also how a text is set), with the loader's
\* and the scheduler's events.  window.FastReader is not used.
NextUI ==
    \/ HandlePdfUpload("A")
    \/ \E l \in Loaders : InitDone(l, MaxPages)
    \/ LoadQuickStart
    \/ LoadAllPdfPages
    \/ \E value \in {<< >>, <<" ">>, DefaultText} : ApplyClick(value)
    \/ \E l \in Loaders, k \in Slots : FetchSuccess(l, k)
    \/ \E l \in Loaders, k \in Slots : FetchFail(l, k)
    \/ \E l \in Loaders, k \in Slots : PollTick(l, k)
    \/ RunMicrotask
    \/ \E which \in {"held", "lost"} : TimerFire(which)

SpecUI == Init /\ [][NextUI]_vars

====
